---- MODULE Spec2Model ----
(***************************************************************************)
(* A model of 3party/opening_hours/opening_hours.cpp: the value types of   *)
(* the opening_hours language (Time, Timespan, WeekdayRange, Holiday,      *)
(* DateOffset, MonthDay, the year/month/week ranges, RuleSequence) and the *)
(* operator<< overloads that render them.                                  *)
(*                                                                         *)
(* An object is built by calls of its setters and then written once to an  *)
(* empty stream: pc is "build" while the setters run and "done" once the   *)
(* object has been written, when it names the object written; ost holds   *)
(* the characters written and fmt the formatting state of the stream,     *)
(* which every operator<< reads and leaves as the insertions it makes      *)
(* leave it.  Text is a TLA+ string, one element per character.            *)
(***************************************************************************)
EXTENDS Integers, Sequences, FiniteSets, TLC

VARIABLES
  pc,        \* "build", or the object that has been written
  ost,       \* the characters written to the stream
  time,      \* the Time under construction
  called,    \* history: the Time setters that have been called
  span,      \* the Timespan under construction
  wrange,    \* the WeekdayRange under construction
  holiday,   \* the Holiday under construction
  dateOffset, \* the DateOffset under construction
  rule,      \* the RuleSequence under construction
  rules,     \* the TRuleSequences vector under construction
  yearRange, \* the YearRange under construction
  monthdayRange, \* the MonthdayRange under construction
  lhs,       \* the Time on the left of an arithmetic operator (*this)
  rhs,       \* the Time on the right of an arithmetic operator
  result,    \* the Time the last arithmetic operator returned
  fmt        \* the formatting state of the stream: flags, width and fill

vars ==
  <<pc, ost, time, called, span, wrange, holiday, dateOffset, rule, rules,
    yearRange, monthdayRange, lhs, rhs, result, fmt>>

\* what the actions on one object leave alone (a setter leaves the stream,
\* ost and fmt, as well; writing the object changes both)
notObjects == <<time, called, span, wrange, holiday, dateOffset, rule, rules>>
notArith == <<yearRange, monthdayRange, fmt>>
notLater == <<yearRange, monthdayRange, lhs, rhs, result>>
notTime == <<span, wrange, holiday, dateOffset, rule, rules, notLater>>
notSpan == <<time, called, wrange, holiday, dateOffset, rule, rules, notLater>>
notWeekdayRange == <<time, called, span, holiday, dateOffset, rule, rules, notLater>>
notOffsets == <<time, called, span, wrange, rule, rules, notLater>>
notRule == <<time, called, span, wrange, holiday, dateOffset, rules, notLater>>
notRules == <<time, called, span, wrange, holiday, dateOffset, rule, notLater>>
notRanges == <<notObjects, lhs, rhs, result>>
notOperators == <<pc, ost, notObjects, notArith>>
notStream == <<notObjects, yearRange, monthdayRange, lhs, rhs, result>>

(***************************************************************************)
(* Bounds of the inputs                                                    *)
(***************************************************************************)
MaxHours == 3
MaxMinutes == 62
MaxOffset == 3
MaxNths == 2
MaxRules == 3
MaxPeriod == 2
MaxWidth == 3
MaxText == 4

(***************************************************************************)
(* Shared helpers                                                          *)
(***************************************************************************)
Abs(x) == IF x < 0 THEN -x ELSE x

\* C++ integer division and duration_cast truncate toward zero
TruncDiv(a, b) == IF a >= 0 THEN a \div b ELSE -((-a) \div b)

Digit(d) == SubSeq("0123456789", d + 1, d + 1)

\* ost << n for an unsigned n
RECURSIVE PrintUnsigned(_)
PrintUnsigned(n) ==
  IF n < 10 THEN Digit(n) ELSE PrintUnsigned(n \div 10) \o Digit(n % 10)

\* ost << n for a signed n
PrintSigned(n) == IF n < 0 THEN "-" \o PrintUnsigned(-n) ELSE PrintUnsigned(n)

RECURSIVE Fill(_, _)
Fill(c, n) == IF n <= 0 THEN "" ELSE c \o Fill(c, n - 1)

\* the formatting state of a std::ostream that affects later output, as the
\* stream is constructed: flags skipws | dec, width 0, fill ' '
DefaultFmt == [flags |-> {"skipws", "dec"}, width |-> 0, fill |-> " "]

\* StreamFlagsKeeper's constructor: m_flags(m_ost.flags())
StreamFlagsKeeper_Ctor(f) == f.flags

\* StreamFlagsKeeper's destructor: m_ost.flags(m_flags)
StreamFlagsKeeper_Dtor(f, m_flags) == [f EXCEPT !.flags = m_flags]

\* ost << std::setw(n)
Setw(f, n) == [f EXCEPT !.width = n]

\* ost << std::setfill(c)
Setfill(f, c) == [f EXCEPT !.fill = c]

\* A stream st is its characters and its formatting state:
\* [text |-> ..., fmt |-> ...].  Insert is one formatted insertion of the
\* streams library, ost << x for a character, a string or the digits of a
\* number: the text, padded to the width with the fill character, after the
\* text when the adjustment is left and before it otherwise, and the width
\* reset to 0
Insert(st, text) ==
  LET pad == Fill(st.fmt.fill, st.fmt.width - Len(text))
  IN  [text |-> st.text \o (IF "left" \in st.fmt.flags THEN text \o pad ELSE pad \o text),
       fmt |-> [st.fmt EXCEPT !.width = 0]]

\* PrintPaddedNumber(ost, number, padding).  number is a uint32_t, and every
\* caller of this model passes a value in 0 .. 2^31 - 1, which the
\* conversion to uint32_t leaves as it is
PrintPaddedNumber(st, number, padding) ==
  LET m_flags == StreamFlagsKeeper_Ctor(st.fmt)
      s1 == [st EXCEPT !.fmt = Setfill(Setw(@, padding), "0")]
      s2 == Insert(s1, PrintUnsigned(number))
  IN  [s2 EXCEPT !.fmt = StreamFlagsKeeper_Dtor(@, m_flags)]

(***************************************************************************)
(* PrintVector                                                             *)
(***************************************************************************)
\* template PrintVector(ost, v, sepFunc), on the elements of v and the
\* separators sepFunc gives for them.  PrintElement is the operator<< of the
\* element type the template is instantiated with.  The separator written
\* before an element is the one sepFunc gave for the element before it
PrintVector(st, v, seps, PrintElement(_, _)) ==
  LET RECURSIVE Loop(_, _, _)
      Loop(out, it, sep) ==
        IF it > Len(v) THEN out
        ELSE Loop(PrintElement(Insert(out, sep), v[it]), it + 1, seps[it])
  IN  IF Len(v) = 0 THEN st
      ELSE Loop(PrintElement(st, v[1]), 2, seps[1])

\* PrintVector(ost, v, sep): the same separator for every element
PrintVectorSep(st, v, sep, PrintElement(_, _)) ==
  PrintVector(st, v, [i \in 1 .. Len(v) |-> sep], PrintElement)

(***************************************************************************)
(* Time                                                                    *)
(***************************************************************************)
Events == {"NotEvent", "Sunrise", "Sunset", "Dawn", "Dusk"}

\* m_state is a bit set over these two flags; IsNotTime is the empty set
HaveHours == "HaveHours"
HaveMinutes == "HaveMinutes"
IsNotTime == {}

\* a default-constructed Time; m_duration is counted in minutes
DefaultTime == [state |-> IsNotTime, duration |-> 0, event |-> "NotEvent"]

Time_SetHours(t, hours) ==
  [t EXCEPT !.state = @ \cup {HaveHours, HaveMinutes}, !.duration = hours * 60]

Time_SetMinutes(t, minutes) ==
  [t EXCEPT !.state = @ \cup {HaveMinutes}
                        \cup (IF minutes > 60 \/ minutes < -60 THEN {HaveHours} ELSE {}),
            !.duration = minutes]

Time_SetEvent(t, event) == [t EXCEPT !.event = event]

Time_IsEvent(t) == t.event # "NotEvent"

\* a variant that tests the stored duration instead of the presence flags
Time_IsEventOffset_ByDuration(t) == Time_IsEvent(t) /\ t.duration # 0

Time_IsEventOffset(t) == Time_IsEvent(t) /\ t.state # IsNotTime

Time_IsHoursMinutes(t) ==
  ~Time_IsEvent(t) /\ (HaveHours \in t.state /\ HaveMinutes \in t.state)

Time_IsMinutes(t) ==
  ~Time_IsEvent(t) /\ (HaveMinutes \in t.state /\ HaveHours \notin t.state)

Time_IsTime(t) == Time_IsHoursMinutes(t) \/ Time_IsEvent(t)

Time_HasValue(t) == Time_IsEvent(t) \/ Time_IsTime(t) \/ Time_IsMinutes(t)

\* Time::operator+ and Time::operator-(Time const &): a copy of the left operand
Time_Plus(a, b) == Time_SetMinutes(a, a.duration + b.duration)

Time_Minus(a, b) == Time_SetMinutes(a, a.duration - b.duration)

\* a variant of the unary operator that goes through SetMinutes
Time_Negate_ViaSetMinutes(t) == Time_SetMinutes(t, -t.duration)

\* unary Time::operator-
Time_Negate(t) == [t EXCEPT !.duration = -@]

Time_GetEventTime(t) == DefaultTime

RECURSIVE Time_GetHours(_)
Time_GetHours(t) ==
  IF Time_IsEvent(t) THEN Time_GetHours(Time_GetEventTime(t))
  ELSE IF Time_IsEventOffset(t) THEN Time_GetHours(Time_Minus(Time_GetEventTime(t), t))
  ELSE TruncDiv(t.duration, 60)

RECURSIVE Time_GetMinutes(_)
Time_GetMinutes(t) ==
  IF Time_IsEvent(t) THEN Time_GetMinutes(Time_GetEventTime(t))
  ELSE IF Time_IsEventOffset(t) THEN Time_GetMinutes(Time_Minus(Time_GetEventTime(t), t))
  ELSE t.duration - 60 * Time_GetHours(t)

Time_GetHoursCount(t) == Time_GetHours(t)

Time_GetMinutesCount(t) == Time_GetMinutes(t)

\* operator<<(std::ostream &, Time::Event)
PrintEvent(st, event) ==
  CASE event = "NotEvent" -> Insert(st, "NotEvent")
    [] event = "Sunrise" -> Insert(st, "sunrise")
    [] event = "Sunset" -> Insert(st, "sunset")
    [] event = "Dawn" -> Insert(st, "dawn")
    [] event = "Dusk" -> Insert(st, "dusk")

\* a variant that writes the two numbers of HH:MM in the other order
PrintTime_Swapped(st, t) ==
  IF ~Time_HasValue(t) THEN Insert(st, "hh:mm")
  ELSE IF Time_IsEvent(t) THEN PrintEvent(st, t.event)
  ELSE IF Time_IsMinutes(t) THEN PrintPaddedNumber(st, Abs(Time_GetMinutesCount(t)), 2)
  ELSE PrintPaddedNumber(
         Insert(PrintPaddedNumber(st, Abs(Time_GetMinutesCount(t)), 2), ":"),
         Abs(Time_GetHoursCount(t)), 2)

\* operator<<(std::ostream &, Time const &)
PrintTime(st, t) ==
  IF ~Time_HasValue(t) THEN Insert(st, "hh:mm")
  ELSE
    LET minutes == Time_GetMinutesCount(t)
        hours == Time_GetHoursCount(t)
    IN  IF Time_IsEvent(t)
        THEN IF Time_IsEventOffset(t)
             THEN LET s1 == PrintEvent(Insert(st, "("), t.event)
                      s2 == Insert(s1, IF hours < 0 THEN "-" ELSE "+")
                      s3 == PrintPaddedNumber(s2, Abs(hours), 2)
                      s4 == Insert(s3, ":")
                      s5 == PrintPaddedNumber(s4, Abs(minutes), 2)
                  IN  Insert(s5, ")")
             ELSE PrintEvent(st, t.event)
        ELSE IF Time_IsMinutes(t)
        THEN PrintPaddedNumber(st, Abs(minutes), 2)
        ELSE LET s1 == PrintPaddedNumber(st, Abs(hours), 2)
                 s2 == Insert(s1, ":")
             IN  PrintPaddedNumber(s2, Abs(minutes), 2)

(***************************************************************************)
(* Timespan                                                                *)
(***************************************************************************)
DefaultTimespan ==
  [start |-> DefaultTime, end |-> DefaultTime, period |-> DefaultTime, plus |-> FALSE]

Timespan_HasStart(s) == Time_HasValue(s.start)

Timespan_HasEnd(s) == Time_HasValue(s.end)

Timespan_IsEmpty(s) == ~Timespan_HasStart(s) /\ ~Timespan_HasEnd(s)

\* a variant that looks at the end only
Timespan_IsOpen_NoStart(s) == ~Timespan_HasEnd(s)

Timespan_IsOpen(s) == Timespan_HasStart(s) /\ ~Timespan_HasEnd(s)

Timespan_HasPlus(s) == s.plus

Timespan_HasPeriod(s) == Time_HasValue(s.period)

\* operator<<(std::ostream &, Timespan const &)
PrintTimespan(st, s) ==
  LET PutPeriod(out) ==
        IF Timespan_HasPeriod(s) THEN PrintTime(Insert(out, "/"), s.period) ELSE out
      PutEnd(out) ==
        IF ~Timespan_IsOpen(s) THEN PutPeriod(PrintTime(Insert(out, "-"), s.end)) ELSE out
      PutPlus(out) == IF Timespan_HasPlus(s) THEN Insert(out, "+") ELSE out
  IN  PutPlus(PutEnd(PrintTime(st, s.start)))

\* operator<<(std::ostream &, TTimespans const &)
PrintTimespans(st, timespans) == PrintVectorSep(st, timespans, ", ", PrintTimespan)

(***************************************************************************)
(* PrintOffset                                                             *)
(***************************************************************************)
\* a variant that writes the plural 's' for every nonzero offset
PrintOffset_AlwaysPlural(st, offset, space) ==
  LET PutSpaceBefore(out) == IF space THEN Insert(out, " ") ELSE out
      PutSign(out) == IF offset > 0 THEN Insert(out, "+") ELSE out
      PutNumber(out) == Insert(out, PrintSigned(offset))
      PutDay(out) == Insert(Insert(out, " "), "day")
      PutPlural(out) == Insert(out, "s")
  IN  IF offset = 0 THEN st
      ELSE PutPlural(PutDay(PutNumber(PutSign(PutSpaceBefore(st)))))

PrintOffset(st, offset, space) ==
  LET PutSpaceBefore(out) == IF space THEN Insert(out, " ") ELSE out
      PutSign(out) == IF offset > 0 THEN Insert(out, "+") ELSE out
      PutNumber(out) == Insert(out, PrintSigned(offset))
      PutDay(out) == Insert(Insert(out, " "), "day")
      PutPlural(out) == IF Abs(offset) > 1 THEN Insert(out, "s") ELSE out
  IN  IF offset = 0 THEN st
      ELSE PutPlural(PutDay(PutNumber(PutSign(PutSpaceBefore(st)))))

(***************************************************************************)
(* Weekday, NthWeekdayOfTheMonthEntry, WeekdayRange                        *)
(***************************************************************************)
Weekdays ==
  {"None", "Sunday", "Monday", "Tuesday", "Wednesday", "Thursday", "Friday", "Saturday"}

\* the enumerators' values, which the comparisons of HasWday use: Sunday to
\* Saturday in this order, None before them
WeekdayValue(wday) ==
  CASE wday = "None" -> 0
    [] wday = "Sunday" -> 1
    [] wday = "Monday" -> 2
    [] wday = "Tuesday" -> 3
    [] wday = "Wednesday" -> 4
    [] wday = "Thursday" -> 5
    [] wday = "Friday" -> 6
    [] wday = "Saturday" -> 7

\* static_cast<uint32_t> of an NthDayOfTheMonth
NthDayValue(nth) ==
  CASE nth = "None" -> 0
    [] nth = "First" -> 1
    [] nth = "Second" -> 2
    [] nth = "Third" -> 3
    [] nth = "Fourth" -> 4
    [] nth = "Fifth" -> 5

DefaultNthEntry == [start |-> "None", end |-> "None"]

NthEntry_HasStart(e) == e.start # "None"

NthEntry_HasEnd(e) == e.end # "None"

\* operator<<(std::ostream &, NthWeekdayOfTheMonthEntry const)
PrintNthEntry(st, e) ==
  LET PutStart(out) ==
        IF NthEntry_HasStart(e)
        THEN Insert(out, PrintUnsigned(NthDayValue(e.start))) ELSE out
      PutEnd(out) ==
        IF NthEntry_HasEnd(e)
        THEN Insert(Insert(out, "-"), PrintUnsigned(NthDayValue(e.end))) ELSE out
  IN  PutEnd(PutStart(st))

DefaultWeekdayRange ==
  [start |-> "None", end |-> "None", offset |-> 0, nths |-> <<>>]

WeekdayRange_HasEnd(r) == r.end # "None"

WeekdayRange_HasNth(r) == Len(r.nths) # 0

WeekdayRange_IsEmpty(r) ==
  r.start = "None" /\ r.end = "None"

\* a variant whose upper bound is exclusive
WeekdayRange_HasWday_Exclusive(r, wday) ==
  IF WeekdayRange_IsEmpty(r) \/ wday = "None" THEN FALSE
  ELSE IF ~WeekdayRange_HasEnd(r) THEN r.start = wday
  ELSE /\ WeekdayValue(r.start) <= WeekdayValue(wday)
       /\ WeekdayValue(wday) < WeekdayValue(r.end)

WeekdayRange_HasWday(r, wday) ==
  IF WeekdayRange_IsEmpty(r) \/ wday = "None" THEN FALSE
  ELSE IF ~WeekdayRange_HasEnd(r) THEN r.start = wday
  ELSE /\ WeekdayValue(r.start) <= WeekdayValue(wday)
       /\ WeekdayValue(wday) <= WeekdayValue(r.end)

\* operator<<(std::ostream &, Weekday const)
PrintWeekday(st, wday) ==
  CASE wday = "Sunday" -> Insert(st, "Su")
    [] wday = "Monday" -> Insert(st, "Mo")
    [] wday = "Tuesday" -> Insert(st, "Tu")
    [] wday = "Wednesday" -> Insert(st, "We")
    [] wday = "Thursday" -> Insert(st, "Th")
    [] wday = "Friday" -> Insert(st, "Fr")
    [] wday = "Saturday" -> Insert(st, "Sa")
    [] wday = "None" -> Insert(st, "not-a-day")

\* operator<<(std::ostream &, WeekdayRange const &)
PrintWeekdayRange(st, r) ==
  LET PutNths(out) ==
        IF WeekdayRange_HasNth(r)
        THEN Insert(PrintVectorSep(Insert(out, "["), r.nths, ",", PrintNthEntry), "]")
        ELSE out
      PutRest(out) ==
        IF WeekdayRange_HasEnd(r)
        THEN PrintWeekday(Insert(out, "-"), r.end)
        ELSE PrintOffset(PutNths(out), r.offset, TRUE)
  IN  PutRest(PrintWeekday(st, r.start))

\* operator<<(std::ostream &, TWeekdayRanges const &)
PrintWeekdayRanges(st, ranges) == PrintVectorSep(st, ranges, ", ", PrintWeekdayRange)

(***************************************************************************)
(* Holiday                                                                 *)
(***************************************************************************)
DefaultHoliday == [plural |-> FALSE, offset |-> 0]

Holiday_IsPlural(h) == h.plural

\* operator<<(std::ostream &, Holiday const &)
PrintHoliday(st, h) ==
  IF Holiday_IsPlural(h) THEN Insert(st, "PH")
  ELSE PrintOffset(Insert(st, "SH"), h.offset, TRUE)

\* operator<<(std::ostream &, THolidays const &)
PrintHolidays(st, holidays) == PrintVectorSep(st, holidays, ", ", PrintHoliday)

(***************************************************************************)
(* DateOffset                                                              *)
(***************************************************************************)
DefaultDateOffset == [wday_offset |-> "None", positive |-> TRUE, offset |-> 0]

DateOffset_HasWDayOffset(o) == o.wday_offset # "None"

DateOffset_HasOffset(o) == o.offset # 0

DateOffset_IsEmpty(o) == ~DateOffset_HasOffset(o) /\ ~DateOffset_HasWDayOffset(o)

DateOffset_IsWDayOffsetPositive(o) == o.positive

\* operator<<(std::ostream &, DateOffset const &)
PrintDateOffset(st, o) ==
  LET PutWDayOffset(out) ==
        IF DateOffset_HasWDayOffset(o)
        THEN PrintWeekday(
               Insert(out, IF DateOffset_IsWDayOffsetPositive(o) THEN "+" ELSE "-"),
               o.wday_offset)
        ELSE out
  IN  PrintOffset(PutWDayOffset(st), o.offset, DateOffset_HasWDayOffset(o))

(***************************************************************************)
(* A stream together with the 'space' flag of the putSpace lambdas:        *)
(* [ost |-> the stream, space |-> the flag]                                *)
(***************************************************************************)
\* bool space = false; with the stream the operator was given
NoSpaceYet(st) == [ost |-> st, space |-> FALSE]

\* putSpace()
PutSpace(l) ==
  [ost |-> IF l.space THEN Insert(l.ost, " ") ELSE l.ost, space |-> TRUE]

(***************************************************************************)
(* Weekdays                                                                *)
(***************************************************************************)
DefaultWeekdays == [weekdayRanges |-> <<>>, holidays |-> <<>>]

Weekdays_IsEmpty(w) == Len(w.weekdayRanges) = 0 /\ Len(w.holidays) = 0

Weekdays_HasWeekday(w) == Len(w.weekdayRanges) # 0

Weekdays_HasHolidays(w) == Len(w.holidays) # 0

\* operator<<(std::ostream &, Weekdays const &)
PrintWeekdays(st, w) ==
  LET PutComma(out) ==
        IF Weekdays_HasWeekday(w) /\ Weekdays_HasHolidays(w)
        THEN Insert(out, ", ") ELSE out
  IN  PrintWeekdayRanges(PutComma(PrintHolidays(st, w.holidays)), w.weekdayRanges)

(***************************************************************************)
(* MonthDay, MonthdayRange                                                 *)
(***************************************************************************)
DefaultMonthDay ==
  [year |-> 0, month |-> "None", daynum |-> 0, variable_date |-> "None",
   offset |-> DefaultDateOffset]

MonthDay_IsVariable(md) == md.variable_date # "None"

MonthDay_HasYear(md) == md.year # 0

MonthDay_HasMonth(md) == md.month # "None"

MonthDay_HasDayNum(md) == md.daynum # 0

MonthDay_HasOffset(md) == ~DateOffset_IsEmpty(md.offset)

MonthDay_IsEmpty(md) ==
  ~MonthDay_HasYear(md) /\ ~MonthDay_HasMonth(md)
  /\ ~MonthDay_HasDayNum(md) /\ ~MonthDay_IsVariable(md)

\* operator<<(std::ostream &, MonthDay::Month const): the enumerator's name
PrintMonth(st, month) == Insert(st, month)

\* operator<<(std::ostream &, MonthDay::VariableDate const)
PrintVariableDate(st, date) ==
  CASE date = "None" -> Insert(st, "none")
    [] date = "Easter" -> Insert(st, "easter")

\* operator<<(std::ostream &, MonthDay const)
PrintMonthDay(st, md) ==
  LET PutYear(l) ==
        IF MonthDay_HasYear(md)
        THEN [PutSpace(l) EXCEPT !.ost = Insert(@, PrintUnsigned(md.year))] ELSE l
      PutMonth(l) ==
        IF MonthDay_HasMonth(md)
        THEN [PutSpace(l) EXCEPT !.ost = PrintMonth(@, md.month)] ELSE l
      PutDayNum(l) ==
        IF MonthDay_HasDayNum(md)
        THEN [PutSpace(l) EXCEPT !.ost = PrintPaddedNumber(@, md.daynum, 2)] ELSE l
      PutDate(l) ==
        IF MonthDay_IsVariable(md)
        THEN [PutSpace(l) EXCEPT !.ost = PrintVariableDate(@, md.variable_date)]
        ELSE PutDayNum(PutMonth(l))
      PutOffset(out) ==
        IF MonthDay_HasOffset(md)
        THEN PrintDateOffset(Insert(out, " "), md.offset) ELSE out
  IN  PutOffset(PutDate(PutYear(NoSpaceYet(st))).ost)

DefaultMonthdayRange ==
  [start |-> DefaultMonthDay, end |-> DefaultMonthDay, period |-> 0, plus |-> FALSE]

MonthdayRange_HasStart(r) == ~MonthDay_IsEmpty(r.start)

MonthdayRange_HasEnd(r) == ~MonthDay_IsEmpty(r.end) \/ MonthDay_HasDayNum(r.end)

MonthdayRange_HasPeriod(r) == r.period # 0

MonthdayRange_HasPlus(r) == r.plus

\* operator<<(std::ostream &, MonthdayRange const &)
PrintMonthdayRange(st, r) ==
  LET PutStart(out) ==
        IF MonthdayRange_HasStart(r) THEN PrintMonthDay(out, r.start) ELSE out
      PutPeriod(out) ==
        IF MonthdayRange_HasPeriod(r)
        THEN Insert(Insert(out, "/"), PrintUnsigned(r.period)) ELSE out
      PutPlus(out) == IF MonthdayRange_HasPlus(r) THEN Insert(out, "+") ELSE out
      PutRest(out) ==
        IF MonthdayRange_HasEnd(r)
        THEN PutPeriod(PrintMonthDay(Insert(out, "-"), r.end))
        ELSE PutPlus(out)
  IN  PutRest(PutStart(st))

\* operator<<(std::ostream &, TMonthdayRanges const &)
PrintMonthdayRanges(st, ranges) == PrintVectorSep(st, ranges, ", ", PrintMonthdayRange)

(***************************************************************************)
(* YearRange                                                               *)
(***************************************************************************)
DefaultYearRange == [start |-> 0, end |-> 0, period |-> 0, plus |-> FALSE]

YearRange_HasStart(r) == r.start # 0

YearRange_HasEnd(r) == r.end # 0

YearRange_IsEmpty(r) == ~YearRange_HasStart(r) /\ ~YearRange_HasEnd(r)

YearRange_HasPlus(r) == r.plus

YearRange_HasPeriod(r) == r.period # 0

\* a variant that writes the plus only for a range that carries no period
PrintYearRange_PlusNeedsNoPeriod(st, r) ==
  LET PutPeriod(out) ==
        IF YearRange_HasPeriod(r)
        THEN Insert(Insert(out, "/"), PrintUnsigned(r.period)) ELSE out
      PutPlus(out) ==
        IF YearRange_HasPlus(r) /\ ~YearRange_HasPeriod(r) THEN Insert(out, "+") ELSE out
      PutRest(out) ==
        IF YearRange_HasEnd(r)
        THEN PutPeriod(Insert(Insert(out, "-"), PrintUnsigned(r.end)))
        ELSE PutPlus(out)
  IN  IF YearRange_IsEmpty(r) THEN st
      ELSE PutRest(Insert(st, PrintUnsigned(r.start)))

\* operator<<(std::ostream &, YearRange const)
PrintYearRange(st, r) ==
  LET PutPeriod(out) ==
        IF YearRange_HasPeriod(r)
        THEN Insert(Insert(out, "/"), PrintUnsigned(r.period)) ELSE out
      PutPlus(out) == IF YearRange_HasPlus(r) THEN Insert(out, "+") ELSE out
      PutRest(out) ==
        IF YearRange_HasEnd(r)
        THEN PutPeriod(Insert(Insert(out, "-"), PrintUnsigned(r.end)))
        ELSE PutPlus(out)
  IN  IF YearRange_IsEmpty(r) THEN st
      ELSE PutRest(Insert(st, PrintUnsigned(r.start)))

\* operator<<(std::ostream &, TYearRanges const)
PrintYearRanges(st, ranges) == PrintVectorSep(st, ranges, ", ", PrintYearRange)

(***************************************************************************)
(* WeekRange                                                               *)
(***************************************************************************)
DefaultWeekRange == [start |-> 0, end |-> 0, period |-> 0]

WeekRange_HasStart(r) == r.start # 0

WeekRange_HasEnd(r) == r.end # 0

WeekRange_IsEmpty(r) == ~WeekRange_HasStart(r) /\ ~WeekRange_HasEnd(r)

WeekRange_HasPeriod(r) == r.period # 0

\* operator<<(std::ostream &, WeekRange const)
PrintWeekRange(st, r) ==
  LET PutPeriod(out) ==
        IF WeekRange_HasPeriod(r)
        THEN Insert(Insert(out, "/"), PrintUnsigned(r.period)) ELSE out
      PutEnd(out) ==
        IF WeekRange_HasEnd(r)
        THEN PutPeriod(PrintPaddedNumber(Insert(out, "-"), r.end, 2)) ELSE out
  IN  IF WeekRange_IsEmpty(r) THEN st
      ELSE PutEnd(PrintPaddedNumber(st, r.start, 2))

\* operator<<(std::ostream &, TWeekRanges const)
PrintWeekRanges(st, ranges) ==
  PrintVectorSep(Insert(st, "week "), ranges, ", ", PrintWeekRange)

(***************************************************************************)
(* RuleSequence                                                            *)
(***************************************************************************)
Modifiers == {"DefaultOpen", "Open", "Closed", "Unknown", "Comment"}

DefaultRuleSequence ==
  [twentyFourHours |-> FALSE, years |-> <<>>, months |-> <<>>, weeks |-> <<>>,
   weekdays |-> DefaultWeekdays, times |-> <<>>, comment |-> "",
   anySeparator |-> ";", separatorForReadability |-> FALSE,
   modifier |-> "DefaultOpen", modifierComment |-> ""]

RuleSequence_IsTwentyFourHours(s) == s.twentyFourHours

RuleSequence_HasYears(s) == Len(s.years) # 0

RuleSequence_HasMonths(s) == Len(s.months) # 0

RuleSequence_HasWeeks(s) == Len(s.weeks) # 0

RuleSequence_HasWeekdays(s) == ~Weekdays_IsEmpty(s.weekdays)

RuleSequence_HasTimes(s) == Len(s.times) # 0

RuleSequence_HasComment(s) == Len(s.comment) # 0

RuleSequence_HasModifierComment(s) == Len(s.modifierComment) # 0

RuleSequence_HasSeparatorForReadability(s) == s.separatorForReadability

RuleSequence_IsEmpty(s) ==
  ~RuleSequence_HasYears(s) /\ ~RuleSequence_HasMonths(s)
  /\ ~RuleSequence_HasWeeks(s) /\ ~RuleSequence_HasWeekdays(s)
  /\ ~RuleSequence_HasTimes(s)

\* operator<<(std::ostream &, RuleSequence::Modifier const)
PrintModifier(st, modifier) ==
  CASE modifier \in {"DefaultOpen", "Comment"} -> st
    [] modifier = "Unknown" -> Insert(st, "unknown")
    [] modifier = "Closed" -> Insert(st, "closed")
    [] modifier = "Open" -> Insert(st, "open")

\* operator<<(std::ostream &, RuleSequence const &), the branch taken when the
\* rule is not 24/7: the comment, or the selectors
WriteRuleSelectors(s, l) ==
  LET PutYears(a) ==
        IF RuleSequence_HasYears(s)
        THEN [PutSpace(a) EXCEPT !.ost = PrintYearRanges(@, s.years)] ELSE a
      PutMonths(a) ==
        IF RuleSequence_HasMonths(s)
        THEN [PutSpace(a) EXCEPT !.ost = PrintMonthdayRanges(@, s.months)] ELSE a
      PutWeeks(a) ==
        IF RuleSequence_HasWeeks(s)
        THEN [PutSpace(a) EXCEPT !.ost = PrintWeekRanges(@, s.weeks)] ELSE a
      PutColon(a) ==
        IF RuleSequence_HasSeparatorForReadability(s)
        THEN [a EXCEPT !.ost = Insert(@, ":")] ELSE a
      PutWeekdays(a) ==
        IF RuleSequence_HasWeekdays(s)
        THEN [PutSpace(a) EXCEPT !.ost = PrintWeekdays(@, s.weekdays)] ELSE a
      PutTimes(a) ==
        IF RuleSequence_HasTimes(s)
        THEN [PutSpace(a) EXCEPT !.ost = PrintTimespans(@, s.times)] ELSE a
  IN  IF RuleSequence_HasComment(s)
      THEN [l EXCEPT !.ost = Insert(Insert(@, s.comment), ":")]
      ELSE PutTimes(PutWeekdays(PutColon(PutWeeks(PutMonths(PutYears(l))))))

\* a variant in which 24/7 does not keep the selectors from being written
WriteRuleHead_NoShortCircuit(s, l) ==
  WriteRuleSelectors(s, IF RuleSequence_IsTwentyFourHours(s)
                        THEN [PutSpace(l) EXCEPT !.ost = Insert(@, "24/7")] ELSE l)

\* the first if/else of the operator: 24/7, or the branch above
WriteRuleHead(s, l) ==
  IF RuleSequence_IsTwentyFourHours(s)
  THEN [PutSpace(l) EXCEPT !.ost = Insert(@, "24/7")]
  ELSE WriteRuleSelectors(s, l)

\* operator<<(std::ostream &, RuleSequence const &)
PrintRuleSequence(st, s) ==
  LET PutModifier(l) ==
        IF s.modifier # "DefaultOpen" /\ s.modifier # "Comment"
        THEN [PutSpace(l) EXCEPT !.ost = PrintModifier(@, s.modifier)] ELSE l
      PutModifierComment(l) ==
        IF RuleSequence_HasModifierComment(s)
        THEN [PutSpace(l) EXCEPT
                !.ost = Insert(Insert(Insert(@, "\""), s.modifierComment), "\"")]
        ELSE l
  IN  PutModifierComment(PutModifier(WriteRuleHead(s, NoSpaceYet(st)))).ost

\* the separator lambda of operator<<(std::ostream &, TRuleSequences const &)
RuleSeparator(r) ==
  LET sep == r.anySeparator
  IN  IF sep = "||" THEN " " \o sep \o " " ELSE sep \o " "

\* a variant in which the separator written before a rule is that rule's
\* own, not the one of the rule before it
PrintRuleSequences_OwnSep(st, v) ==
  PrintVector(st, v,
              [i \in 1 .. Len(v) |-> RuleSeparator(v[IF i < Len(v) THEN i + 1 ELSE i])],
              PrintRuleSequence)

\* operator<<(std::ostream &, TRuleSequences const &)
PrintRuleSequences(st, v) ==
  PrintVector(st, v, [i \in 1 .. Len(v) |-> RuleSeparator(v[i])], PrintRuleSequence)

\* the stream that the operators write to
Stream == [text |-> ost, fmt |-> fmt]

(***************************************************************************)
(* The text an operator writes to a stream as it is constructed, for the   *)
(* claims to compare the written text with                                 *)
(***************************************************************************)
NewStream == [text |-> "", fmt |-> DefaultFmt]

TextOfPaddedNumber(number, padding) == PrintPaddedNumber(NewStream, number, padding).text

TextOfEvent(event) == PrintEvent(NewStream, event).text

TextOfTime(t) == PrintTime(NewStream, t).text

TextOfWeekday(wday) == PrintWeekday(NewStream, wday).text

TextOfMonthDay(md) == PrintMonthDay(NewStream, md).text

TextOfModifier(modifier) == PrintModifier(NewStream, modifier).text

TextOfYearRanges(ranges) == PrintYearRanges(NewStream, ranges).text

TextOfMonthdayRanges(ranges) == PrintMonthdayRanges(NewStream, ranges).text

TextOfWeekRanges(ranges) == PrintWeekRanges(NewStream, ranges).text

TextOfWeekdays(w) == PrintWeekdays(NewStream, w).text

TextOfTimespans(timespans) == PrintTimespans(NewStream, timespans).text

TextOfRuleSequence(s) == PrintRuleSequence(NewStream, s).text

(***************************************************************************)
(* The initial state: every object default-constructed, the stream empty   *)
(***************************************************************************)
Init ==
  /\ pc = "build"
  /\ ost = ""
  /\ time = DefaultTime
  /\ called = {}
  /\ span = DefaultTimespan
  /\ wrange = DefaultWeekdayRange
  /\ holiday = DefaultHoliday
  /\ dateOffset = DefaultDateOffset
  /\ rule = DefaultRuleSequence
  /\ rules = <<>>
  /\ yearRange = DefaultYearRange
  /\ monthdayRange = DefaultMonthdayRange
  /\ lhs = DefaultTime
  /\ rhs = DefaultTime
  /\ result = DefaultTime
  /\ fmt = DefaultFmt

(***************************************************************************)
(* Building and writing a Time                                             *)
(***************************************************************************)
HourInputs == (-MaxHours) .. MaxHours
MinuteInputs == (-MaxMinutes) .. MaxMinutes

CallSetHours ==
  /\ pc = "build"
  /\ \E hours \in HourInputs : time' = Time_SetHours(time, hours)
  /\ called' = called \cup {"SetHours"}
  /\ UNCHANGED <<pc, ost, fmt, notTime>>

CallSetMinutes ==
  /\ pc = "build"
  /\ \E minutes \in MinuteInputs : time' = Time_SetMinutes(time, minutes)
  /\ called' = called \cup {"SetMinutes"}
  /\ UNCHANGED <<pc, ost, fmt, notTime>>

CallSetEvent ==
  /\ pc = "build"
  /\ \E event \in Events : time' = Time_SetEvent(time, event)
  /\ called' = called \cup {"SetEvent"}
  /\ UNCHANGED <<pc, ost, fmt, notTime>>

WriteTime ==
  /\ pc = "build"
  /\ LET written == PrintTime(Stream, time)
     IN  ost' = written.text /\ fmt' = written.fmt
  /\ pc' = "time"
  /\ UNCHANGED <<time, called, notTime>>

NextTime == CallSetHours \/ CallSetMinutes \/ CallSetEvent \/ WriteTime

SpecTime == Init /\ [][NextTime]_vars

(***************************************************************************)
(* Reading an HH:MM literal back: the digits before and after the colon    *)
(***************************************************************************)
DigitValue(c) == CHOOSE d \in 0 .. 9 : Digit(d) = c

RECURSIVE ParseUnsigned(_, _)
ParseUnsigned(s, acc) ==
  IF Len(s) = 0 THEN acc ELSE ParseUnsigned(Tail(s), 10 * acc + DigitValue(Head(s)))

RECURSIVE BeforeColon(_)
BeforeColon(s) ==
  IF Len(s) = 0 \/ Head(s) = ":" THEN "" ELSE Head(s) \o BeforeColon(Tail(s))

RECURSIVE AfterColon(_)
AfterColon(s) ==
  IF Len(s) = 0 THEN "" ELSE IF Head(s) = ":" THEN Tail(s) ELSE AfterColon(Tail(s))

ParseHHMM(s) == <<ParseUnsigned(BeforeColon(s), 0), ParseUnsigned(AfterColon(s), 0)>>

(***************************************************************************)
(* Claims about Time                                                       *)
(***************************************************************************)
\* the Time that the claim C1 expects GetHours/GetMinutes to read: the event
\* time minus the stored offset
OffsetFromEvent(t) == Time_Minus(Time_GetEventTime(t), t)

\* the text the claim C1 expects for an event offset
ExpectedEventOffsetText(t) ==
  LET hours == TruncDiv(OffsetFromEvent(t).duration, 60)
      minutes == OffsetFromEvent(t).duration - 60 * hours
  IN  "(" \o TextOfEvent(t.event) \o (IF hours < 0 THEN "-" ELSE "+")
      \o TextOfPaddedNumber(Abs(hours), 2) \o ":"
      \o TextOfPaddedNumber(Abs(minutes), 2) \o ")"

\* C1: for an event offset (event tag set, offset duration d stored by
\* SetHours/SetMinutes) GetHours and GetMinutes return the components of
\* (event time - d), and the written "(event+HH:MM)" shows them.
C1_EventOffsetReflectsDuration ==
  Time_IsEventOffset(time) =>
    /\ Time_GetHours(time) = TruncDiv(OffsetFromEvent(time).duration, 60)
    /\ Time_GetMinutes(time) =
         OffsetFromEvent(time).duration - 60 * TruncDiv(OffsetFromEvent(time).duration, 60)
    /\ (pc = "time" => ost = ExpectedEventOffsetText(time))

\* C2 as stated: IsEventOffset is true exactly when the event tag is set and
\* the stored duration is nonzero.
C2_EventOffsetIffNonzeroDuration ==
  Time_IsEventOffset(time) <=> (time.event # "NotEvent" /\ time.duration # 0)

\* C2 as amended: IsEventOffset is true exactly when the event tag is set and
\* SetHours or SetMinutes has been called at least once, whatever duration
\* they stored.
C2_EventOffsetIffEventAndTimeSet ==
  Time_IsEventOffset(time) <=>
    (time.event # "NotEvent" /\ called \cap {"SetHours", "SetMinutes"} # {})

\* an event Time whose stored duration is zero and which is an event offset
C2_Witness ==
  /\ time.event = "Sunrise" /\ time.duration = 0 /\ "SetMinutes" \in called
  /\ Time_IsEventOffset(time)

\* C7 as stated: writing a non-event Time with both flags set and reading the
\* HH:MM literal back yields (GetHoursCount, GetMinutesCount).
C7_RoundTripSigned ==
  (pc = "time" /\ Time_IsHoursMinutes(time)) =>
    ParseHHMM(ost) = <<Time_GetHoursCount(time), Time_GetMinutesCount(time)>>

\* C7 as amended: reading the literal back yields the magnitudes
\* (|GetHoursCount|, |GetMinutesCount|), which is the pair itself exactly
\* when the stored duration is not negative.
C7_RoundTripMagnitude ==
  (pc = "time" /\ Time_IsHoursMinutes(time)) =>
    /\ ParseHHMM(ost) = <<Abs(Time_GetHoursCount(time)), Abs(Time_GetMinutesCount(time))>>
    /\ (ParseHHMM(ost) = <<Time_GetHoursCount(time), Time_GetMinutesCount(time)>>
          <=> time.duration >= 0)

\* a negative duration of one hour and two minutes, written as 01:02
C7_Witness ==
  /\ pc = "time" /\ Time_IsHoursMinutes(time) /\ time.duration = -62
  /\ ost = "01:02" /\ ParseHHMM(ost) = <<1, 2>>

(***************************************************************************)
(* Building and writing a Timespan                                         *)
(***************************************************************************)
\* Times that setter calls on a default-constructed Time produce:
\* unset, 09:00, 18:30, the minutes-only 30, sunrise, and sunset with an offset
TimeSamples ==
  { DefaultTime,
    Time_SetHours(DefaultTime, 9),
    Time_SetMinutes(Time_SetHours(DefaultTime, 18), 1110),
    Time_SetMinutes(DefaultTime, 30),
    Time_SetEvent(DefaultTime, "Sunrise"),
    Time_SetEvent(Time_SetHours(DefaultTime, 1), "Sunset") }

Timespan_SetStart ==
  /\ pc = "build"
  /\ \E t \in TimeSamples : span' = [span EXCEPT !.start = t]
  /\ UNCHANGED <<pc, ost, fmt, notSpan>>

Timespan_SetEnd ==
  /\ pc = "build"
  /\ \E t \in TimeSamples : span' = [span EXCEPT !.end = t]
  /\ UNCHANGED <<pc, ost, fmt, notSpan>>

Timespan_SetPeriod ==
  /\ pc = "build"
  /\ \E t \in TimeSamples : span' = [span EXCEPT !.period = t]
  /\ UNCHANGED <<pc, ost, fmt, notSpan>>

Timespan_SetPlus ==
  /\ pc = "build"
  /\ \E plus \in BOOLEAN : span' = [span EXCEPT !.plus = plus]
  /\ UNCHANGED <<pc, ost, fmt, notSpan>>

WriteTimespan ==
  /\ pc = "build"
  /\ LET written == PrintTimespan(Stream, span)
     IN  ost' = written.text /\ fmt' = written.fmt
  /\ pc' = "span"
  /\ UNCHANGED <<span, notSpan>>

NextTimespan ==
  \/ Timespan_SetStart
  \/ Timespan_SetEnd
  \/ Timespan_SetPeriod
  \/ Timespan_SetPlus
  \/ WriteTimespan

SpecTimespan == Init /\ [][NextTimespan]_vars

(***************************************************************************)
(* Claims about Timespan                                                   *)
(***************************************************************************)
\* C8: a Timespan is written as the start; then "-" and the end exactly when
\* the span is not open (open: the start has a value and the end has none);
\* then "/" and the period when the span is not open and the period has a
\* value; then "+" exactly when the plus flag is set.  A span with only a
\* start is written as the start alone, and a span with neither start nor
\* end still writes the end part, both as the placeholder hh:mm.
C8_TimespanText ==
  pc = "span" =>
    LET open == Time_HasValue(span.start) /\ ~Time_HasValue(span.end)
    IN  /\ ost = TextOfTime(span.start)
                 \o (IF open THEN "" ELSE "-" \o TextOfTime(span.end))
                 \o (IF ~open /\ Time_HasValue(span.period)
                     THEN "/" \o TextOfTime(span.period) ELSE "")
                 \o (IF span.plus THEN "+" ELSE "")
        /\ (open /\ ~span.plus => ost = TextOfTime(span.start))
        /\ (~Time_HasValue(span.start) /\ ~Time_HasValue(span.end)
             => SubSeq(ost, 1, 11) = "hh:mm-hh:mm")

\* a written span with neither start nor end, and no period or plus
C8_Witness ==
  /\ pc = "span" /\ Timespan_IsEmpty(span) /\ ~span.plus
  /\ ~Time_HasValue(span.period) /\ ost = "hh:mm-hh:mm"

(***************************************************************************)
(* Building and writing a WeekdayRange                                     *)
(***************************************************************************)
OffsetInputs == (-MaxOffset) .. MaxOffset

\* nth-of-month entries as SetStart and SetEnd leave them: 1, 2-4, and -5
NthEntrySamples ==
  { [DefaultNthEntry EXCEPT !.start = "First"],
    [DefaultNthEntry EXCEPT !.start = "Second", !.end = "Fourth"],
    [DefaultNthEntry EXCEPT !.end = "Fifth"] }

WeekdayRange_SetStart ==
  /\ pc = "build"
  /\ \E wday \in Weekdays : wrange' = [wrange EXCEPT !.start = wday]
  /\ UNCHANGED <<pc, ost, fmt, notWeekdayRange>>

WeekdayRange_SetEnd ==
  /\ pc = "build"
  /\ \E wday \in Weekdays : wrange' = [wrange EXCEPT !.end = wday]
  /\ UNCHANGED <<pc, ost, fmt, notWeekdayRange>>

WeekdayRange_SetOffset ==
  /\ pc = "build"
  /\ \E offset \in OffsetInputs : wrange' = [wrange EXCEPT !.offset = offset]
  /\ UNCHANGED <<pc, ost, fmt, notWeekdayRange>>

WeekdayRange_AddNth ==
  /\ pc = "build"
  /\ Len(wrange.nths) < MaxNths
  /\ \E entry \in NthEntrySamples : wrange' = [wrange EXCEPT !.nths = Append(@, entry)]
  /\ UNCHANGED <<pc, ost, fmt, notWeekdayRange>>

WriteWeekdayRange ==
  /\ pc = "build"
  /\ LET written == PrintWeekdayRange(Stream, wrange)
     IN  ost' = written.text /\ fmt' = written.fmt
  /\ pc' = "wrange"
  /\ UNCHANGED <<wrange, notWeekdayRange>>

NextWeekdayRange ==
  \/ WeekdayRange_SetStart
  \/ WeekdayRange_SetEnd
  \/ WeekdayRange_SetOffset
  \/ WeekdayRange_AddNth
  \/ WriteWeekdayRange

SpecWeekdayRange == Init /\ [][NextWeekdayRange]_vars

(***************************************************************************)
(* Claims about WeekdayRange                                               *)
(***************************************************************************)
\* the days of the week in the order Sun < Mon < ... < Sat
WeekOrder ==
  <<"Sunday", "Monday", "Tuesday", "Wednesday", "Thursday", "Friday", "Saturday">>

\* the place of a weekday in that order; None, which is no day of the week,
\* has the place before Sunday that its enumerator value gives it
Place(wday) ==
  IF wday = "None" THEN 0 ELSE CHOOSE i \in 1 .. 7 : WeekOrder[i] = wday

\* C9: HasWday(w) is false for w = None and for an empty range; for a range
\* with a start and no end it is true exactly for w = start; for a range
\* with an end it is true exactly when start <= w <= end in the order
\* Sun < ... < Sat, both ends included: Mo-Fr contains Tu and not Sa, and an
\* inverted range contains no day.
C9_HasWday ==
  /\ \A w \in Weekdays :
       LET has == WeekdayRange_HasWday(wrange, w)
       IN  /\ (w = "None" \/ (wrange.start = "None" /\ wrange.end = "None")) => ~has
           /\ (w # "None" /\ wrange.start # "None" /\ wrange.end = "None")
                => (has <=> w = wrange.start)
           /\ (w # "None" /\ wrange.end # "None")
                => (has <=> (Place(wrange.start) <= Place(w) /\ Place(w) <= Place(wrange.end)))
           /\ (wrange.end # "None" /\ Place(wrange.start) > Place(wrange.end)) => ~has
  /\ (wrange.start = "Monday" /\ wrange.end = "Friday")
       => /\ WeekdayRange_HasWday(wrange, "Tuesday")
          /\ WeekdayRange_HasWday(wrange, "Monday")
          /\ WeekdayRange_HasWday(wrange, "Friday")
          /\ ~WeekdayRange_HasWday(wrange, "Saturday")
          /\ ~WeekdayRange_HasWday(wrange, "Sunday")

\* the range Mo-Fr, built by SetStart and SetEnd, which has Tu and not Sa
C9_Witness ==
  /\ wrange.start = "Monday" /\ wrange.end = "Friday"
  /\ WeekdayRange_HasWday(wrange, "Tuesday")
  /\ ~WeekdayRange_HasWday(wrange, "Saturday")

(***************************************************************************)
(* Building and writing a Holiday and a DateOffset, the callers of         *)
(* PrintOffset with space = true and with either value of space            *)
(***************************************************************************)
Holiday_SetPlural ==
  /\ pc = "build"
  /\ \E plural \in BOOLEAN : holiday' = [holiday EXCEPT !.plural = plural]
  /\ UNCHANGED <<pc, ost, fmt, dateOffset, notOffsets>>

Holiday_SetOffset ==
  /\ pc = "build"
  /\ \E offset \in OffsetInputs : holiday' = [holiday EXCEPT !.offset = offset]
  /\ UNCHANGED <<pc, ost, fmt, dateOffset, notOffsets>>

DateOffset_SetWDayOffset ==
  /\ pc = "build"
  /\ \E wday \in Weekdays : dateOffset' = [dateOffset EXCEPT !.wday_offset = wday]
  /\ UNCHANGED <<pc, ost, fmt, holiday, notOffsets>>

DateOffset_SetOffset ==
  /\ pc = "build"
  /\ \E offset \in OffsetInputs : dateOffset' = [dateOffset EXCEPT !.offset = offset]
  /\ UNCHANGED <<pc, ost, fmt, holiday, notOffsets>>

DateOffset_SetWDayOffsetPositive ==
  /\ pc = "build"
  /\ \E on \in BOOLEAN : dateOffset' = [dateOffset EXCEPT !.positive = on]
  /\ UNCHANGED <<pc, ost, fmt, holiday, notOffsets>>

WriteHoliday ==
  /\ pc = "build"
  /\ LET written == PrintHoliday(Stream, holiday)
     IN  ost' = written.text /\ fmt' = written.fmt
  /\ pc' = "holiday"
  /\ UNCHANGED <<holiday, dateOffset, notOffsets>>

WriteDateOffset ==
  /\ pc = "build"
  /\ LET written == PrintDateOffset(Stream, dateOffset)
     IN  ost' = written.text /\ fmt' = written.fmt
  /\ pc' = "dateOffset"
  /\ UNCHANGED <<holiday, dateOffset, notOffsets>>

NextOffsets ==
  \/ Holiday_SetPlural
  \/ Holiday_SetOffset
  \/ DateOffset_SetWDayOffset
  \/ DateOffset_SetOffset
  \/ DateOffset_SetWDayOffsetPositive
  \/ WriteHoliday
  \/ WriteDateOffset

SpecOffsets == Init /\ [][NextOffsets]_vars

(***************************************************************************)
(* Claims about PrintOffset and Holiday                                    *)
(***************************************************************************)
\* the decimal digits of a magnitude, lowest digit last
RECURSIVE Decimal(_)
Decimal(n) ==
  IF n < 10 THEN SubSeq("0123456789", n + 1, n + 1)
  ELSE Decimal(n \div 10) \o SubSeq("0123456789", (n % 10) + 1, (n % 10) + 1)

\* what C10 says PrintOffset writes
OffsetText(offset, space) ==
  IF offset = 0 THEN ""
  ELSE (IF space THEN " " ELSE "")
       \o (IF offset > 0 THEN "+" \o Decimal(offset) ELSE "-" \o Decimal(-offset))
       \o " day"
       \o (IF offset > 1 \/ offset < -1 THEN "s" ELSE "")

\* C10: PrintOffset writes nothing for 0; otherwise a space exactly when
\* space is true, "+" exactly when the offset is positive, the decimal
\* integer, " day", and "s" exactly when |offset| > 1.  So a non-plural
\* Holiday is written "SH" for offset 0 and "SH +2 days" for offset 2, and
\* a plural Holiday "PH" whatever its offset.
C10_PrintOffset ==
  /\ pc = "holiday" =>
       /\ ost = (IF holiday.plural THEN "PH" ELSE "SH" \o OffsetText(holiday.offset, TRUE))
       /\ (~holiday.plural /\ holiday.offset = 0 => ost = "SH")
       /\ (~holiday.plural /\ holiday.offset = 2 => ost = "SH +2 days")
       /\ (~holiday.plural /\ holiday.offset = -1 => ost = "SH -1 day")
       /\ (holiday.plural => ost = "PH")
  /\ pc = "dateOffset" =>
       /\ (dateOffset.wday_offset = "None" => ost = OffsetText(dateOffset.offset, FALSE))
       /\ (dateOffset.wday_offset = "None" /\ dateOffset.offset = 1 => ost = "+1 day")
       /\ (dateOffset.wday_offset = "None" /\ dateOffset.offset = -2 => ost = "-2 days")
       /\ (dateOffset.wday_offset = "None" /\ dateOffset.offset = 0 => ost = "")
       /\ (dateOffset.wday_offset # "None" =>
             ost = (IF dateOffset.positive THEN "+" ELSE "-")
                   \o TextOfWeekday(dateOffset.wday_offset)
                   \o OffsetText(dateOffset.offset, TRUE))

\* a written non-plural Holiday with offset 2
C10_Witness ==
  pc = "holiday" /\ ~holiday.plural /\ holiday.offset = 2 /\ ost = "SH +2 days"

(***************************************************************************)
(* Building and writing a RuleSequence                                     *)
(***************************************************************************)
\* selector values as the setters of their types leave them
YearRange2015 == [DefaultYearRange EXCEPT !.start = 2015, !.plus = TRUE]

YearRange2017To2020 == [DefaultYearRange EXCEPT !.start = 2017, !.end = 2020, !.period = 2]

MonthDayJan05 == [DefaultMonthDay EXCEPT !.month = "Jan", !.daynum = 5]

MonthDayEaster ==
  [DefaultMonthDay EXCEPT !.variable_date = "Easter",
                          !.offset = [DefaultDateOffset EXCEPT !.offset = -2]]

MonthdayRangeJan05ToEaster ==
  [DefaultMonthdayRange EXCEPT !.start = MonthDayJan05, !.end = MonthDayEaster]

WeekRange01To53 == [DefaultWeekRange EXCEPT !.start = 1, !.end = 53, !.period = 2]

WeekdayRangeMoFr == [DefaultWeekdayRange EXCEPT !.start = "Monday", !.end = "Friday"]

WeekdayRangeSa ==
  [DefaultWeekdayRange EXCEPT !.start = "Saturday",
                              !.nths = <<[DefaultNthEntry EXCEPT !.start = "First"]>>]

HolidayPH == [DefaultHoliday EXCEPT !.plural = TRUE]

Timespan0900To1830 ==
  [DefaultTimespan EXCEPT !.start = Time_SetHours(DefaultTime, 9),
                          !.end = Time_SetMinutes(Time_SetHours(DefaultTime, 18), 1110)]

TimespanSunrise ==
  [DefaultTimespan EXCEPT !.start = Time_SetEvent(DefaultTime, "Sunrise"), !.plus = TRUE]

YearsSamples == { <<>>, <<YearRange2015, YearRange2017To2020>> }

MonthsSamples == { <<>>, <<MonthdayRangeJan05ToEaster>> }

WeeksSamples == { <<>>, <<WeekRange01To53>> }

WeekdaysSamples ==
  { DefaultWeekdays,
    [DefaultWeekdays EXCEPT !.weekdayRanges = <<WeekdayRangeSa>>],
    [DefaultWeekdays EXCEPT !.holidays = <<HolidayPH>>, !.weekdayRanges = <<WeekdayRangeMoFr>>] }

TimesSamples == { <<>>, <<Timespan0900To1830, TimespanSunrise>> }

CommentSamples == {"", "by appointment"}

ModifierCommentSamples == {"", "on request"}

SeparatorSamples == {";", ",", "||"}

RuleSequence_SetTwentyFourHours ==
  /\ pc = "build"
  /\ \E on \in BOOLEAN : rule' = [rule EXCEPT !.twentyFourHours = on]
  /\ UNCHANGED <<pc, ost, fmt, notRule>>

RuleSequence_SetYears ==
  /\ pc = "build"
  /\ \E years \in YearsSamples : rule' = [rule EXCEPT !.years = years]
  /\ UNCHANGED <<pc, ost, fmt, notRule>>

RuleSequence_SetMonths ==
  /\ pc = "build"
  /\ \E months \in MonthsSamples : rule' = [rule EXCEPT !.months = months]
  /\ UNCHANGED <<pc, ost, fmt, notRule>>

RuleSequence_SetWeeks ==
  /\ pc = "build"
  /\ \E weeks \in WeeksSamples : rule' = [rule EXCEPT !.weeks = weeks]
  /\ UNCHANGED <<pc, ost, fmt, notRule>>

RuleSequence_SetWeekdays ==
  /\ pc = "build"
  /\ \E weekdays \in WeekdaysSamples : rule' = [rule EXCEPT !.weekdays = weekdays]
  /\ UNCHANGED <<pc, ost, fmt, notRule>>

RuleSequence_SetTimes ==
  /\ pc = "build"
  /\ \E times \in TimesSamples : rule' = [rule EXCEPT !.times = times]
  /\ UNCHANGED <<pc, ost, fmt, notRule>>

RuleSequence_SetComment ==
  /\ pc = "build"
  /\ \E comment \in CommentSamples : rule' = [rule EXCEPT !.comment = comment]
  /\ UNCHANGED <<pc, ost, fmt, notRule>>

RuleSequence_SetModifierComment ==
  /\ pc = "build"
  /\ \E comment \in ModifierCommentSamples :
       rule' = [rule EXCEPT !.modifierComment = comment]
  /\ UNCHANGED <<pc, ost, fmt, notRule>>

RuleSequence_SetAnySeparator ==
  /\ pc = "build"
  /\ \E separator \in SeparatorSamples :
       rule' = [rule EXCEPT !.anySeparator = separator]
  /\ UNCHANGED <<pc, ost, fmt, notRule>>

RuleSequence_SetSeparatorForReadability ==
  /\ pc = "build"
  /\ \E on \in BOOLEAN : rule' = [rule EXCEPT !.separatorForReadability = on]
  /\ UNCHANGED <<pc, ost, fmt, notRule>>

RuleSequence_SetModifier ==
  /\ pc = "build"
  /\ \E modifier \in Modifiers : rule' = [rule EXCEPT !.modifier = modifier]
  /\ UNCHANGED <<pc, ost, fmt, notRule>>

WriteRuleSequence ==
  /\ pc = "build"
  /\ LET written == PrintRuleSequence(Stream, rule)
     IN  ost' = written.text /\ fmt' = written.fmt
  /\ pc' = "rule"
  /\ UNCHANGED <<rule, notRule>>

NextRule ==
  \/ RuleSequence_SetTwentyFourHours
  \/ RuleSequence_SetYears
  \/ RuleSequence_SetMonths
  \/ RuleSequence_SetWeeks
  \/ RuleSequence_SetWeekdays
  \/ RuleSequence_SetTimes
  \/ RuleSequence_SetComment
  \/ RuleSequence_SetModifierComment
  \/ RuleSequence_SetAnySeparator
  \/ RuleSequence_SetSeparatorForReadability
  \/ RuleSequence_SetModifier
  \/ WriteRuleSequence

SpecRule == Init /\ [][NextRule]_vars

(***************************************************************************)
(* Claims about RuleSequence                                               *)
(***************************************************************************)
\* C3: IsEmpty is true exactly when years, months, weeks, weekdays and times
\* are all empty and the twentyFourHours flag is false; a RuleSequence with
\* only the flag set is not empty.
C3_IsEmptyCountsTwentyFourHours ==
  RuleSequence_IsEmpty(rule) <=>
    /\ rule.years = <<>> /\ rule.months = <<>> /\ rule.weeks = <<>>
    /\ rule.weekdays.weekdayRanges = <<>> /\ rule.weekdays.holidays = <<>>
    /\ rule.times = <<>>
    /\ ~rule.twentyFourHours

\* the keyword of a modifier that has one
ModifierKeyword(modifier) ==
  CASE modifier = "Open" -> "open"
    [] modifier = "Closed" -> "closed"
    [] modifier = "Unknown" -> "unknown"

\* C4: a RuleSequence with twentyFourHours set is written as exactly "24/7",
\* then " " and the keyword when the modifier is Open, Closed or Unknown,
\* then " " and the quoted modifier comment when there is one; no selector,
\* comment or readability colon is written.
C4_TwentyFourHoursText ==
  (pc = "rule" /\ rule.twentyFourHours) =>
    ost = "24/7"
          \o (IF rule.modifier \in {"Open", "Closed", "Unknown"}
              THEN " " \o ModifierKeyword(rule.modifier) ELSE "")
          \o (IF rule.modifierComment # ""
              THEN " \"" \o rule.modifierComment \o "\"" ELSE "")

\* a written 24/7 rule that has every selector, a comment and the colon
C4_Witness ==
  /\ pc = "rule" /\ rule.twentyFourHours
  /\ rule.years # <<>> /\ rule.months # <<>> /\ rule.weeks # <<>>
  /\ rule.weekdays # DefaultWeekdays /\ rule.times # <<>>
  /\ rule.comment # "" /\ rule.separatorForReadability
  /\ rule.modifier = "Closed" /\ rule.modifierComment = "on request"
  /\ ost = "24/7 closed \"on request\""

\* texts joined by one space
RECURSIVE JoinWithSpace(_)
JoinWithSpace(parts) ==
  IF Len(parts) = 0 THEN ""
  ELSE IF Len(parts) = 1 THEN parts[1]
  ELSE parts[1] \o " " \o JoinWithSpace(Tail(parts))

\* the sequence <<part>> when present, the empty sequence otherwise
Opt(present, part) == IF present THEN <<part>> ELSE <<>>

\* the parts C5 names that come last in every branch
TrailingParts(s) ==
  Opt(s.modifier \in {"Open", "Closed", "Unknown"}, TextOfModifier(s.modifier))
  \o Opt(s.modifierComment # "", "\"" \o s.modifierComment \o "\"")

\* the text C5 expects: the emitted parts, one space between neighbours and
\* none before the first.  The readability colon, which C5 does not count
\* as a part, stays where the operator writes it: right after the weeks.
ExpectedRuleText(s) ==
  IF s.twentyFourHours THEN JoinWithSpace(<<"24/7">> \o TrailingParts(s))
  ELSE IF s.comment # "" THEN JoinWithSpace(<<s.comment \o ":">> \o TrailingParts(s))
  ELSE
    LET before == Opt(s.years # <<>>, TextOfYearRanges(s.years))
                  \o Opt(s.months # <<>>, TextOfMonthdayRanges(s.months))
                  \o Opt(s.weeks # <<>>, TextOfWeekRanges(s.weeks))
        after == Opt(~Weekdays_IsEmpty(s.weekdays), TextOfWeekdays(s.weekdays))
                 \o Opt(s.times # <<>>, TextOfTimespans(s.times))
                 \o TrailingParts(s)
    IN  JoinWithSpace(before)
        \o (IF s.separatorForReadability THEN ":" ELSE "")
        \o (IF before # <<>> /\ after # <<>> THEN " " ELSE "")
        \o JoinWithSpace(after)

\* C5: in the text of any RuleSequence each emitted part is separated from
\* the part emitted before it by exactly one space, and no space precedes
\* the first part, in every branch, the free-text comment branch included.
C5_PartsSeparatedBySpace ==
  pc = "rule" => ost = ExpectedRuleText(rule)

(***************************************************************************)
(* Building and writing a vector of RuleSequences                          *)
(***************************************************************************)
\* rules as the RuleSequence setters leave them, each with its separator
Rule247 == [DefaultRuleSequence EXCEPT !.twentyFourHours = TRUE, !.anySeparator = ";"]

RuleMoFr ==
  [DefaultRuleSequence EXCEPT
     !.weekdays = [DefaultWeekdays EXCEPT !.weekdayRanges = <<WeekdayRangeMoFr>>],
     !.times = <<Timespan0900To1830>>,
     !.anySeparator = "||"]

RulePHClosed ==
  [DefaultRuleSequence EXCEPT
     !.weekdays = [DefaultWeekdays EXCEPT !.holidays = <<HolidayPH>>],
     !.modifier = "Closed",
     !.anySeparator = ","]

RuleSunrise == [DefaultRuleSequence EXCEPT !.times = <<TimespanSunrise>>, !.anySeparator = ";"]

RuleSamples == { Rule247, RuleMoFr, RulePHClosed, RuleSunrise }

\* std::vector<RuleSequence>::push_back
RuleSequences_PushBack ==
  /\ pc = "build"
  /\ Len(rules) < MaxRules
  /\ \E r \in RuleSamples : rules' = Append(rules, r)
  /\ UNCHANGED <<pc, ost, fmt, notRules>>

WriteRuleSequences ==
  /\ pc = "build"
  /\ LET written == PrintRuleSequences(Stream, rules)
     IN  ost' = written.text /\ fmt' = written.fmt
  /\ pc' = "rules"
  /\ UNCHANGED <<rules, notRules>>

NextRules == RuleSequences_PushBack \/ WriteRuleSequences

SpecRules == Init /\ [][NextRules]_vars

(***************************************************************************)
(* Claims about the vector of RuleSequences                                *)
(***************************************************************************)
\* what C6 says stands between a rule and its successor
Glue(separator) == IF separator = "||" THEN " || " ELSE separator \o " "

\* the rules in order, each but the last followed by the glue of its own
\* separator
RECURSIVE JoinRules(_)
JoinRules(v) ==
  IF Len(v) = 0 THEN ""
  ELSE IF Len(v) = 1 THEN TextOfRuleSequence(v[1])
  ELSE TextOfRuleSequence(v[1]) \o Glue(v[1].anySeparator) \o JoinRules(Tail(v))

\* C6: a vector of RuleSequences is written as the rules in order; between
\* rule i and rule i+1 stands what rule i's own separator determines, " || "
\* for "||" and otherwise the separator and one space; nothing is written
\* before the first rule or after the last, and an empty vector writes
\* nothing.
C6_RulesJoinedByOwnSeparator ==
  pc = "rules" =>
    /\ ost = JoinRules(rules)
    /\ (rules = <<>> => ost = "")
    /\ (rules = <<RuleMoFr, Rule247>> => ost = "Mo-Fr 09:00-18:30 || 24/7")

\* three written rules whose separators are ";", "||" and ","
C6_Witness ==
  /\ pc = "rules"
  /\ rules = <<Rule247, RuleMoFr, RulePHClosed>>
  /\ ost = "24/7; Mo-Fr 09:00-18:30 || PH closed"

(***************************************************************************)
(* Building and writing a YearRange and a MonthdayRange                    *)
(***************************************************************************)
YearInputs == {0, 2015, 2020}

PeriodInputs == 0 .. MaxPeriod

MonthDayInputs == {DefaultMonthDay, MonthDayJan05, MonthDayEaster}

YearRange_SetStart ==
  /\ pc = "build"
  /\ \E start \in YearInputs : yearRange' = [yearRange EXCEPT !.start = start]
  /\ UNCHANGED <<pc, ost, fmt, monthdayRange, notRanges>>

YearRange_SetEnd ==
  /\ pc = "build"
  /\ \E end \in YearInputs : yearRange' = [yearRange EXCEPT !.end = end]
  /\ UNCHANGED <<pc, ost, fmt, monthdayRange, notRanges>>

YearRange_SetPlus ==
  /\ pc = "build"
  /\ \E plus \in BOOLEAN : yearRange' = [yearRange EXCEPT !.plus = plus]
  /\ UNCHANGED <<pc, ost, fmt, monthdayRange, notRanges>>

YearRange_SetPeriod ==
  /\ pc = "build"
  /\ \E period \in PeriodInputs : yearRange' = [yearRange EXCEPT !.period = period]
  /\ UNCHANGED <<pc, ost, fmt, monthdayRange, notRanges>>

MonthdayRange_SetStart ==
  /\ pc = "build"
  /\ \E start \in MonthDayInputs : monthdayRange' = [monthdayRange EXCEPT !.start = start]
  /\ UNCHANGED <<pc, ost, fmt, yearRange, notRanges>>

MonthdayRange_SetEnd ==
  /\ pc = "build"
  /\ \E end \in MonthDayInputs : monthdayRange' = [monthdayRange EXCEPT !.end = end]
  /\ UNCHANGED <<pc, ost, fmt, yearRange, notRanges>>

MonthdayRange_SetPeriod ==
  /\ pc = "build"
  /\ \E period \in PeriodInputs :
       monthdayRange' = [monthdayRange EXCEPT !.period = period]
  /\ UNCHANGED <<pc, ost, fmt, yearRange, notRanges>>

MonthdayRange_SetPlus ==
  /\ pc = "build"
  /\ \E plus \in BOOLEAN : monthdayRange' = [monthdayRange EXCEPT !.plus = plus]
  /\ UNCHANGED <<pc, ost, fmt, yearRange, notRanges>>

WriteYearRange ==
  /\ pc = "build"
  /\ LET written == PrintYearRange(Stream, yearRange)
     IN  ost' = written.text /\ fmt' = written.fmt
  /\ pc' = "yearRange"
  /\ UNCHANGED <<yearRange, monthdayRange, notRanges>>

WriteMonthdayRange ==
  /\ pc = "build"
  /\ LET written == PrintMonthdayRange(Stream, monthdayRange)
     IN  ost' = written.text /\ fmt' = written.fmt
  /\ pc' = "monthdayRange"
  /\ UNCHANGED <<yearRange, monthdayRange, notRanges>>

NextRanges ==
  \/ YearRange_SetStart
  \/ YearRange_SetEnd
  \/ YearRange_SetPlus
  \/ YearRange_SetPeriod
  \/ MonthdayRange_SetStart
  \/ MonthdayRange_SetEnd
  \/ MonthdayRange_SetPeriod
  \/ MonthdayRange_SetPlus
  \/ WriteYearRange
  \/ WriteMonthdayRange

SpecRanges == Init /\ [][NextRanges]_vars

(***************************************************************************)
(* Claims about the period and the plus of YearRange and MonthdayRange     *)
(***************************************************************************)
\* the text ends with the suffix
EndsWith(text, suffix) ==
  /\ Len(text) >= Len(suffix)
  /\ SubSeq(text, Len(text) - Len(suffix) + 1, Len(text)) = suffix

\* the written text ends with a plus
RendersPlus == EndsWith(ost, "+")

\* the written text ends with a period suffix
RendersPeriod == \E p \in 1 .. MaxPeriod + 1 : EndsWith(ost, "/" \o Decimal(p))

\* the written range, whichever of the two kinds was written, as the facts
\* the claim speaks of: has a start, has an end, the plus flag, the period
WrittenRange ==
  IF pc = "yearRange"
  THEN [hasStart |-> yearRange.start # 0, hasEnd |-> yearRange.end # 0,
        plus |-> yearRange.plus, period |-> yearRange.period,
        endText |-> Decimal(yearRange.end)]
  ELSE [hasStart |-> monthdayRange.start # DefaultMonthDay,
        hasEnd |-> monthdayRange.end # DefaultMonthDay,
        plus |-> monthdayRange.plus, period |-> monthdayRange.period,
        endText |-> TextOfMonthDay(monthdayRange.end)]

\* C11 as stated: the period is written only directly after an explicit
\* "-end"; the plus is written only for an open-ended range (start set, end
\* unset) whose plus flag is set and which carries no period; a range with
\* an end never writes the plus, and an open-ended range with a nonzero
\* period writes no plus.
C11_PlusOnlyWithoutPeriod ==
  pc \in {"yearRange", "monthdayRange"} =>
    LET r == WrittenRange
    IN  /\ RendersPeriod => (r.hasEnd /\ EndsWith(ost, "-" \o r.endText \o "/" \o Decimal(r.period)))
        /\ RendersPlus => (r.hasStart /\ ~r.hasEnd /\ r.plus /\ r.period = 0)
        /\ r.hasEnd => ~RendersPlus
        /\ (r.hasStart /\ ~r.hasEnd /\ r.period # 0) => ~RendersPlus

\* C11 as the code has it: the period is written exactly when the range has
\* an end and a nonzero period, directly after "-end"; the plus is written
\* exactly when the end is unset and the plus flag is set, whatever the
\* period, by a YearRange that has a start (an empty YearRange writes
\* nothing) and by a MonthdayRange with or without a start; a range with an
\* end never writes the plus.
C11_PlusIffNoEndAndPlusFlag ==
  pc \in {"yearRange", "monthdayRange"} =>
    LET r == WrittenRange
    IN  /\ RendersPeriod <=> (r.hasEnd /\ r.period # 0)
        /\ RendersPeriod => EndsWith(ost, "-" \o r.endText \o "/" \o Decimal(r.period))
        /\ RendersPlus <=>
             (~r.hasEnd /\ r.plus /\ (pc = "yearRange" => r.hasStart))
        /\ r.hasEnd => ~RendersPlus

\* a written open-ended YearRange with the plus flag and a period, which
\* writes the plus and no period
C11_Witness ==
  /\ pc = "yearRange"
  /\ yearRange = [start |-> 2015, end |-> 0, period |-> 2, plus |-> TRUE]
  /\ ost = "2015+"

(***************************************************************************)
(* A stream that its owner formats and PrintPaddedNumber writes to         *)
(***************************************************************************)
NumberInputs == {7, 42}

FillInputs == {" ", "*"}

\* the owner of the stream: ost << std::setw(n)
OwnerSetw ==
  /\ \E n \in 0 .. MaxWidth : fmt' = Setw(fmt, n)
  /\ UNCHANGED <<pc, ost, notStream>>

\* the owner of the stream: ost << std::setfill(c)
OwnerSetfill ==
  /\ \E c \in FillInputs : fmt' = Setfill(fmt, c)
  /\ UNCHANGED <<pc, ost, notStream>>

\* the owner of the stream: ost << std::left, and ost << std::right, each
\* setf(flag, adjustfield): the adjustment flags cleared, then the flag set
OwnerSetAdjust ==
  /\ \E adjust \in {"left", "right"} :
       fmt' = [fmt EXCEPT !.flags = (@ \ {"left", "right", "internal"}) \cup {adjust}]
  /\ UNCHANGED <<pc, ost, notStream>>

\* the owner of the stream: ost << number
OwnerInsert ==
  /\ Len(ost) < MaxText
  /\ \E number \in NumberInputs :
       LET written == Insert(Stream, PrintUnsigned(number))
       IN  ost' = written.text /\ fmt' = written.fmt
  /\ UNCHANGED <<pc, notStream>>

\* PrintPaddedNumber(ost, number, padding)
PrintPaddedNumber_Call ==
  /\ Len(ost) < MaxText
  /\ \E number \in NumberInputs, padding \in 1 .. MaxWidth :
       LET written == PrintPaddedNumber(Stream, number, padding)
       IN  ost' = written.text /\ fmt' = written.fmt
  /\ UNCHANGED <<pc, notStream>>

NextStream ==
  \/ OwnerSetw
  \/ OwnerSetfill
  \/ OwnerSetAdjust
  \/ OwnerInsert
  \/ PrintPaddedNumber_Call

SpecStream == Init /\ [][NextStream]_vars

(***************************************************************************)
(* Claims about the formatting state PrintPaddedNumber leaves              *)
(***************************************************************************)
\* C13: after PrintPaddedNumber(ost, n, padding) returns, for any n and
\* padding, the flags, the width and the fill character of the stream are
\* what they were before the call.
C13_NoFormattingLeak ==
  [][PrintPaddedNumber_Call =>
       (fmt'.flags = fmt.flags /\ fmt'.width = fmt.width /\ fmt'.fill = fmt.fill)]_vars

\* the part of C13 that holds: the flags are what they were before
C13_FlagsRestored == [][PrintPaddedNumber_Call => fmt'.flags = fmt.flags]_vars

(***************************************************************************)
(* Building two Times and applying the arithmetic operators to them        *)
(***************************************************************************)
OperandHours == {-1, 0, 2}

OperandMinutes == {-61, -30, 0, 30, 61}

OperandEvents == {"NotEvent", "Sunrise"}

\* Time::SetHours on either operand
Operand_SetHours ==
  /\ pc = "build"
  /\ \E hours \in OperandHours :
       \/ lhs' = Time_SetHours(lhs, hours) /\ rhs' = rhs
       \/ rhs' = Time_SetHours(rhs, hours) /\ lhs' = lhs
  /\ UNCHANGED <<result, notOperators>>

\* Time::SetMinutes on either operand
Operand_SetMinutes ==
  /\ pc = "build"
  /\ \E minutes \in OperandMinutes :
       \/ lhs' = Time_SetMinutes(lhs, minutes) /\ rhs' = rhs
       \/ rhs' = Time_SetMinutes(rhs, minutes) /\ lhs' = lhs
  /\ UNCHANGED <<result, notOperators>>

\* Time::SetEvent on either operand
Operand_SetEvent ==
  /\ pc = "build"
  /\ \E event \in OperandEvents :
       \/ lhs' = Time_SetEvent(lhs, event) /\ rhs' = rhs
       \/ rhs' = Time_SetEvent(rhs, event) /\ lhs' = lhs
  /\ UNCHANGED <<result, notOperators>>

\* result = lhs + rhs
Time_OperatorPlus ==
  /\ pc = "build"
  /\ result' = Time_Plus(lhs, rhs)
  /\ pc' = "plus"
  /\ UNCHANGED <<lhs, rhs, ost, notObjects, notArith>>

\* result = lhs - rhs
Time_OperatorMinus ==
  /\ pc = "build"
  /\ result' = Time_Minus(lhs, rhs)
  /\ pc' = "minus"
  /\ UNCHANGED <<lhs, rhs, ost, notObjects, notArith>>

\* result = -lhs: the operator changes lhs and returns a reference to it
Time_OperatorNegate ==
  /\ pc = "build"
  /\ lhs' = Time_Negate(lhs)
  /\ result' = lhs'
  /\ pc' = "negate"
  /\ UNCHANGED <<rhs, ost, notObjects, notArith>>

NextArith ==
  \/ Operand_SetHours
  \/ Operand_SetMinutes
  \/ Operand_SetEvent
  \/ Time_OperatorPlus
  \/ Time_OperatorMinus
  \/ Time_OperatorNegate

SpecArith == Init /\ [][NextArith]_vars

(***************************************************************************)
(* Claims about Time arithmetic                                            *)
(***************************************************************************)
\* the duration the operator that has just run is said to give
ExpectedDuration ==
  CASE pc' = "plus" -> lhs.duration + rhs.duration
    [] pc' = "minus" -> lhs.duration - rhs.duration
    [] pc' = "negate" -> 0 - lhs.duration

\* C12 as stated: each of a + b, a - b and -a gives the duration a.d + b.d,
\* a.d - b.d and -a.d, and the Time it gives always has the minute-presence
\* flag, and has the hour-presence flag whenever the magnitude of its
\* duration exceeds one hour.
C12_FlagsRederivedByEveryOperator ==
  [][pc' \in {"plus", "minus", "negate"} =>
       /\ result'.duration = ExpectedDuration
       /\ "HaveMinutes" \in result'.state
       /\ (result'.duration > 60 \/ result'.duration < -60) => "HaveHours" \in result'.state]_vars

\* C12 as the code has it: a + b and a - b give the durations a.d + b.d and
\* a.d - b.d in a Time that has the flags and the event of a, the
\* minute-presence flag, and the hour-presence flag whenever the magnitude
\* of the duration exceeds one hour; -a negates the duration of a in place
\* and gives a itself, with the flags a had, so the negation of a flag-less
\* Time is flag-less.
C12_FlagsRederivedByPlusAndMinus ==
  [][pc' \in {"plus", "minus", "negate"} =>
       /\ result'.duration = ExpectedDuration
       /\ result'.event = lhs.event
       /\ lhs.state \subseteq result'.state
       /\ (result'.duration > 60 \/ result'.duration < -60) => "HaveHours" \in result'.state
       /\ pc' \in {"plus", "minus"} => ("HaveMinutes" \in result'.state /\ lhs' = lhs)
       /\ pc' = "negate" => (result'.state = lhs.state /\ lhs' = result')]_vars

\* the negation of a default-constructed Time, which has no flag
C12_Witness ==
  /\ pc = "negate"
  /\ lhs = DefaultTime
  /\ result.state = {} /\ result.duration = 0

(***************************************************************************)
(* WeekdayRange::GetDaysCount                                              *)
(***************************************************************************)
\* the uint32_t that the integer n converts to, n modulo 2^32, as its two
\* 16-bit halves: the value is hi * 2^16 + lo
Uint32(n) == [hi |-> (n \div 65536) % 65536, lo |-> n % 65536]

\* WeekdayRange::GetDaysCount: 0 for an empty range, otherwise the uint32_t
\* m_start - m_end + 1, which the conversion to size_t leaves as it is
WeekdayRange_GetDaysCount(r) ==
  IF WeekdayRange_IsEmpty(r) THEN Uint32(0)
  ELSE Uint32(WeekdayValue(r.start) - WeekdayValue(r.end) + 1)

(***************************************************************************)
(* Claims about GetDaysCount                                               *)
(***************************************************************************)
\* the number of weekdays the range has
DaysOf(r) == Cardinality({w \in Weekdays : WeekdayRange_HasWday(r, w)})

\* C14: GetDaysCount is 0 for an empty range and, for every non-empty
\* range, the number of weekdays w with HasWday(w): end - start + 1 for a
\* range with start <= end, and 1 for a range with a start and no end; and
\* the unsigned subtraction does not wrap around for such ranges.
C14_DaysCountIsNumberOfDays ==
  LET count == WeekdayRange_GetDaysCount(wrange)
      start == Place(wrange.start)
      end == Place(wrange.end)
  IN  /\ (start = 0 /\ end = 0) => count = [hi |-> 0, lo |-> 0]
      /\ (start # 0 \/ end # 0) => count = [hi |-> 0, lo |-> DaysOf(wrange)]
      /\ (start # 0 /\ end # 0 /\ start <= end)
           => count = [hi |-> 0, lo |-> end - start + 1]
      /\ (start # 0 /\ end = 0) => count = [hi |-> 0, lo |-> 1]
      /\ (start # 0 /\ (end = 0 \/ start <= end)) => count.hi = 0

\* the cases in which GetDaysCount is the number of days: the empty range
\* and the range whose start and end are the same day
C14_DaysCountOfOneDay ==
  (wrange.start = wrange.end)
    => WeekdayRange_GetDaysCount(wrange) = [hi |-> 0, lo |-> DaysOf(wrange)]

====
